---- MODULE Spec2Model ----
(***************************************************************************)
(* DocumentManager (src/script.js): a record store with two backends (an   *)
(* IndexedDB object store and one localStorage item), the upload / edit /  *)
(* delete handlers that drive it, and the views derived from it (entry     *)
(* list, tag selector, calendar grid).                                     *)
(*                                                                         *)
(* JavaScript strings are sequences of UTF-16 code units (numbers), so     *)
(* that trim, toLowerCase, split, includes, parseInt and the default sort  *)
(* order are computed, not assumed.  An ISO-8601 timestamp text            *)
(* "<date>T<time>Z" is the pair <<date, time>> of its parts around 'T':    *)
(* date is the UTC day number and time the tick within that day.           *)
(***************************************************************************)
EXTENDS Integers, Sequences, FiniteSets

(***************************************************************************)
(* Bounds of the model.                                                    *)
(***************************************************************************)
\* largest id either backend hands out before the model stops inserting
MaxId == 2
\* longest record list the query specification starts from
MaxLen == 2

(***************************************************************************)
(* Program constants.                                                      *)
(***************************************************************************)
MAX_FILE_SIZE == 10 * 1024 * 1024

\* a MIME type "top/sub" is the pair <<top, sub>>
DOCX_MIME ==
    <<"application",
      "vnd.openxmlformats-officedocument.wordprocessingml.document">>

ALLOWED_TYPES ==
    [t \in {<<"application", "pdf">>, DOCX_MIME, <<"text", "plain">>,
            <<"image", "jpeg">>, <<"image", "png">>, <<"video", "mp4">>} |->
        CASE t = <<"application", "pdf">> -> "pdf"
          [] t = DOCX_MIME                -> "docx"
          [] t = <<"text", "plain">>      -> "txt"
          [] t = <<"image", "jpeg">>      -> "jpg"
          [] t = <<"image", "png">>       -> "png"
          [] t = <<"video", "mp4">>       -> "mp4"]

(***************************************************************************)
(* JavaScript values and string functions.                                 *)
(***************************************************************************)
\* code units used by the program text
Comma == 44
Space == 32
\* the number NaN (never equal to an id)
NaN == -1
\* the value null of currentEntryId, distinct from every DOM string
Null == <<0>>

\* ToBoolean of a string-or-null: null and '' are falsy
Truthy(s) == s # Null /\ s # <<>>

ToLowerCase(s) ==
    [i \in 1..Len(s) |-> IF s[i] \in 65..90 THEN s[i] + 32 ELSE s[i]]

IsWhiteSpace(c) == c \in {Space, 9, 10, 13}

RECURSIVE TrimStart(_)
TrimStart(s) ==
    IF s # <<>> /\ IsWhiteSpace(Head(s)) THEN TrimStart(Tail(s)) ELSE s

RECURSIVE TrimEnd(_)
TrimEnd(s) ==
    IF s # <<>> /\ IsWhiteSpace(s[Len(s)])
    THEN TrimEnd(SubSeq(s, 1, Len(s) - 1)) ELSE s

\* String.prototype.trim
Trim(s) == TrimEnd(TrimStart(s))

\* String.prototype.includes
Includes(s, t) ==
    \E i \in 0..(Len(s) - Len(t)) : SubSeq(s, i + 1, i + Len(t)) = t

\* String.prototype.split(sep) for a one-unit separator: "" gives [""]
RECURSIVE SplitFrom(_, _, _)
SplitFrom(s, sep, cur) ==
    IF s = <<>> THEN <<cur>>
    ELSE IF Head(s) = sep THEN <<cur>> \o SplitFrom(Tail(s), sep, <<>>)
    ELSE SplitFrom(Tail(s), sep, Append(cur, Head(s)))

Split(s, sep) == SplitFrom(s, sep, <<>>)

\* decimal text of a non-negative integer, as `${entry.id}` writes it
RECURSIVE IdText(_)
IdText(n) ==
    IF n < 10 THEN <<48 + n>>
    ELSE Append(IdText(n \div 10), 48 + (n % 10))

\* value of the longest prefix of decimal digits; acc = NaN before any digit
RECURSIVE ParseDigits(_, _)
ParseDigits(s, acc) ==
    IF s = <<>> \/ Head(s) \notin 48..57 THEN acc
    ELSE ParseDigits(Tail(s),
                     (IF acc = NaN THEN 0 ELSE acc * 10) + (Head(s) - 48))

\* parseInt(x): leading white space skipped, then decimal digits, else NaN
ParseInt(s) == ParseDigits(TrimStart(s), NaN)

\* lexicographic order on code units: a sorts before b
RECURSIVE StrLess(_, _)
StrLess(a, b) ==
    IF b = <<>> THEN FALSE
    ELSE IF a = <<>> THEN TRUE
    ELSE IF Head(a) # Head(b) THEN Head(a) < Head(b)
    ELSE StrLess(Tail(a), Tail(b))

\* clock ticks per UTC day (granularity of the time-of-day part)
TicksPerDay == 2

\* Date.prototype.toISOString of the instant t (in ticks since the epoch)
ToISOString(t) == <<t \div TicksPerDay, t % TicksPerDay>>

\* new Date(isoText) as an instant
DateParse(iso) == iso[1] * TicksPerDay + iso[2]

\* isoText.split('T')[0]
DatePart(iso) == iso[1]

\* Array.prototype.sort() with no comparator, on distinct strings: ascending
\* code-unit order
RECURSIVE InsertString(_, _)
InsertString(sorted, x) ==
    IF sorted = <<>> THEN <<x>>
    ELSE IF StrLess(x, Head(sorted)) THEN <<x>> \o sorted
    ELSE <<Head(sorted)>> \o InsertString(Tail(sorted), x)

RECURSIVE SortStrings(_)
SortStrings(seq) ==
    IF seq = <<>> THEN <<>>
    ELSE InsertString(SortStrings(SubSeq(seq, 1, Len(seq) - 1)), seq[Len(seq)])

\* the comparator (a, b) => new Date(b.date) - new Date(a.date)
CompareByDate(a, b) == DateParse(b.date) - DateParse(a.date)

\* Array.prototype.sort(cmp) is stable: x is placed before the first y with
\* cmp(x, y) < 0 and so after every y it compares equal to
RECURSIVE InsertEntry(_, _)
InsertEntry(sorted, x) ==
    IF sorted = <<>> THEN <<x>>
    ELSE IF CompareByDate(x, Head(sorted)) < 0 THEN <<x>> \o sorted
    ELSE <<Head(sorted)>> \o InsertEntry(Tail(sorted), x)

RECURSIVE SortEntries(_)
SortEntries(seq) ==
    IF seq = <<>> THEN <<>>
    ELSE InsertEntry(SortEntries(SubSeq(seq, 1, Len(seq) - 1)), seq[Len(seq)])

(***************************************************************************)
(* State.                                                                  *)
(***************************************************************************)
VARIABLES
    pc,                \* "initDB" while the constructor awaits initDB, then "ready"
    db,                \* this.db: "null" or "open"
    useLocalStorage,   \* this.useLocalStorage (undefined is FALSE)
    currentEntryId,    \* this.currentEntryId: Null or the data-id text of a button
    currentDate,       \* this.currentDate, as the month it falls in (the
                       \* month of the page load: 0)
    objectStore,       \* IndexedDB object store 'entries': the set of its records
    keyGenerator,      \* its key generator's current number
    localStorageItem,  \* localStorage item 'entries': absent, or JSON text
    searchInput,       \* #searchInput value
    typeFilter,        \* #typeFilter value
    tagFilter,         \* #tagFilter value
    tagOptions,        \* the tag <option>s of #tagFilter after "All Tags"
    entriesList,       \* the entries shown in #entriesList
    calendar,          \* day of the shown month |-> it carries class has-entries
    toast,             \* message of the last toast
    timezoneOffset,    \* the host's local time minus UTC, in ticks
    last,              \* the last handler run: its store operation and outcome
    context            \* execution context |-> its addEntryToLocalStorage call

vars == <<pc, db, useLocalStorage, currentEntryId, currentDate, objectStore,
          keyGenerator, localStorageItem, searchInput, typeFilter, tagFilter,
          tagOptions, entriesList, calendar, toast, timezoneOffset, last,
          context>>

\* the value undefined (a missing record)
Undefined == [undefined |-> TRUE]

(***************************************************************************)
(* Execution contexts: this page ("self") and the same page open in        *)
(* another tab of the browser ("peer"), which shares localStorage.  Of     *)
(* each, `context` holds its call of addEntryToLocalStorage: where it is   *)
(* (idle, or past the read of line 422), the list it read, the entry it    *)
(* was given, and the id its last call returned.                           *)
(***************************************************************************)
Contexts == {"self", "peer"}

Idle == [pc |-> "idle", entries |-> <<>>, entry |-> Undefined, ret |-> NaN]

\* the option value 'all'
All == <<97, 108, 108>>

(***************************************************************************)
(* The fallback medium: one localStorage item holding JSON text.  The text *)
(* of an array is the sequence of its elements' texts, and the text of an  *)
(* entry object the tuple of its member values in property order (title,   *)
(* description, tags, fileName, fileType, type, fileData, date, id: the    *)
(* order handleUpload creates them in, id assigned last).                  *)
(***************************************************************************)
NoItem == [present |-> FALSE, text |-> <<>>]

StringifyObject(o) ==
    <<o.title, o.description, o.tags, o.fileName, o.fileType, o.type,
      o.fileData, o.date, o.id>>

JSONStringify(entries) ==
    [i \in 1..Len(entries) |-> StringifyObject(entries[i])]

ParseObject(members) ==
    [title |-> members[1], description |-> members[2], tags |-> members[3],
     fileName |-> members[4], fileType |-> members[5], type |-> members[6],
     fileData |-> members[7], date |-> members[8], id |-> members[9]]

JSONParse(text) == [i \in 1..Len(text) |-> ParseObject(text[i])]

\* localStorage.getItem(STORE_NAME) parsed, [] when the item is absent
GetEntriesFromLocalStorage ==
    IF localStorageItem.present THEN JSONParse(localStorageItem.text) ELSE <<>>

\* a plausible slip: the text is stored under another key, and the item
\* under STORE_NAME stays as it is
SetItemUnderOtherKey(entries) == localStorageItem

\* localStorage.setItem(STORE_NAME, JSON.stringify(entries))
SetItem(entries) == [present |-> TRUE, text |-> JSONStringify(entries)]

\* entry with its id property set
WithId(entry, id) ==
    [k \in DOMAIN entry \cup {"id"} |-> IF k = "id" THEN id ELSE entry[k]]

RECURSIVE MaxOf(_)
MaxOf(S) == LET x == CHOOSE x \in S : TRUE
            IN  IF S = {x} THEN x
                ELSE LET m == MaxOf(S \ {x}) IN IF x > m THEN x ELSE m

IdsOf(entries) == {entries[i].id : i \in 1..Len(entries)}

\* a plausible slip: the id is taken from the length of the list
NextLocalIdByLength(entries) == Len(entries) + 1

\* entries.length > 0 ? Math.max(...entries.map(e => e.id)) + 1 : 1
NextLocalId(entries) ==
    IF Len(entries) > 0 THEN MaxOf(IdsOf(entries)) + 1 ELSE 1

\* entries.findIndex(e => e.id === id), 0 for -1
FindIndex(entries, id) ==
    IF \E i \in 1..Len(entries) : entries[i].id = id
    THEN CHOOSE i \in 1..Len(entries) :
            /\ entries[i].id = id
            /\ \A j \in 1..(i - 1) : entries[j].id # id
    ELSE 0

\* entries.find(e => e.id === id)
Find(entries, id) ==
    LET index == FindIndex(entries, id)
    IN  IF index = 0 THEN Undefined ELSE entries[index]

(***************************************************************************)
(* The primary medium: an IndexedDB object store with keyPath 'id' and a   *)
(* key generator (autoIncrement).                                          *)
(***************************************************************************)
\* getAll: the records in ascending key order
RECURSIVE InKeyOrder(_)
InKeyOrder(store) ==
    IF store = {} THEN <<>>
    ELSE LET r == CHOOSE r \in store : \A q \in store : r.id <= q.id
         IN  <<r>> \o InKeyOrder(store \ {r})

\* get(key)
DbGet(store, key) ==
    IF \E r \in store : r.id = key
    THEN CHOOSE r \in store : r.id = key
    ELSE Undefined

\* add(value) of a value without id: the generated key is injected
DbAdd(store, key, entry) == store \cup {WithId(entry, key)}

\* put(value): the record under the value's key is replaced, or the value is
\* stored as a new record when the key is not in the store
DbPut(store, entry) == {r \in store : r.id # entry.id} \cup {entry}

\* delete(key): succeeds whether or not the key is in the store
DbDelete(store, key) == {r \in store : r.id # key}

(***************************************************************************)
(* The store interface of DocumentManager.                                 *)
(***************************************************************************)
\* a plausible slip: every call goes to the database
DispatchToDatabase(flag) == "indexedDB"

\* if (this.useLocalStorage) ... else ...: the medium an operation goes to
Dispatch(flag) == IF flag THEN "localStorage" ELSE "indexedDB"

GetAllEntries ==
    IF Dispatch(useLocalStorage) = "localStorage"
    THEN GetEntriesFromLocalStorage
    ELSE InKeyOrder(objectStore)

GetEntryById(id) ==
    IF Dispatch(useLocalStorage) = "localStorage"
    THEN Find(GetEntriesFromLocalStorage, ParseInt(id))
    ELSE DbGet(objectStore, ParseInt(id))

(***************************************************************************)
(* loadEntries: filter and sort.                                           *)
(***************************************************************************)
\* a plausible slip: the type filter is not applied
MatchesTypeAlways(entry, type) == TRUE

MatchesSearch(entry, searchTerm) ==
    \/ searchTerm = <<>>
    \/ Includes(ToLowerCase(entry.title), searchTerm)
    \/ /\ entry.description # <<>>
       /\ Includes(ToLowerCase(entry.description), searchTerm)

MatchesType(entry, type) == type = "all" \/ entry.type = type

MatchesTag(entry, tag) ==
    \/ tag = All
    \/ \E i \in 1..Len(entry.tags) :
          ToLowerCase(entry.tags[i]) = ToLowerCase(tag)

\* the list loadEntries hands to displayEntries
LoadEntries(entries, search, type, tag) ==
    SortEntries(SelectSeq(entries, LAMBDA e :
        /\ MatchesSearch(e, ToLowerCase(search))
        /\ MatchesType(e, type)
        /\ MatchesTag(e, tag)))

(***************************************************************************)
(* loadTags: the tag selector.                                             *)
(***************************************************************************)
\* a plausible slip: the tags are added to the Set as written
TagKeyAsWritten(tag) == tag

\* the key a tag is added to the Set under
TagKey(tag) == ToLowerCase(tag)

\* Set.prototype.add over a sequence: first occurrences, in insertion order
RECURSIVE AddAll(_, _)
AddAll(set, items) ==
    IF items = <<>> THEN set
    ELSE AddAll(IF \E i \in 1..Len(set) : set[i] = TagKey(Head(items))
                THEN set ELSE Append(set, TagKey(Head(items))),
                Tail(items))

RECURSIVE TagSetOf(_, _)
TagSetOf(set, entries) ==
    IF entries = <<>> THEN set
    ELSE TagSetOf(AddAll(set, Head(entries).tags), Tail(entries))

\* the options appended after "All Tags"
LoadTags(entries) == SortStrings(TagSetOf(<<>>, entries))

\* the selector's value after loadTags: kept when it is still a tag
RestoredTag(entries, currentTag) ==
    LET tags == TagSetOf(<<>>, entries)
    IN  IF /\ currentTag # All
           /\ \E i \in 1..Len(tags) : tags[i] = ToLowerCase(currentTag)
        THEN currentTag ELSE All

(***************************************************************************)
(* renderCalendar: the grid of the shown month.  Local day d of month m is *)
(* day number m * DaysPerMonth + d, and its local midnight the instant     *)
(* d * TicksPerDay - timezoneOffset.                                       *)
(***************************************************************************)
DaysPerMonth == 3

MonthDays(month) ==
    (month * DaysPerMonth)..(month * DaysPerMonth + DaysPerMonth - 1)

\* new Date(year, month, i)
LocalMidnight(day, tzo) == day * TicksPerDay - tzo

\* JavaScript values that are tested for truth
Bool(b) == [kind |-> "boolean", value |-> b]
Promise(v) == [kind |-> "promise", value |-> v]

\* every object, a promise included, is truthy
ToBoolean(x) == IF x.kind = "boolean" THEN x.value ELSE TRUE

\* an async function: its caller receives a promise of the returned value
DoesDateHaveEntries(entries, date) ==
    Promise(IF Len(entries) = 0 THEN FALSE
            ELSE \E i \in 1..Len(entries) :
                    DatePart(entries[i].date) = DatePart(ToISOString(date)))

\* day |-> the 'has-entries' class is written on its cell
RenderCalendar(entries, month, tzo) ==
    [d \in MonthDays(month) |->
        ToBoolean(DoesDateHaveEntries(entries, LocalMidnight(d, tzo)))]

(***************************************************************************)
(* Inputs: what the user can put in the upload form, the instants at which *)
(* a handler can read the clock, and the host's time zone.                 *)
(***************************************************************************)
sReport == <<32, 82, 101, 112, 111, 114, 116, 32>>   \* " Report "
sCat    == <<99, 97, 116>>                           \* "cat"
sBlank  == <<32, 32>>                                \* "  "
sPic    == <<80, 105, 99>>                           \* "Pic"
\* "Work, URGENT"
sWorkUrgent == <<87, 111, 114, 107, 44, 32, 85, 82, 71, 69, 78, 84>>
\* "work, ,Cat"
sWorkCat == <<119, 111, 114, 107, 44, 32, 44, 67, 97, 116>>

File(name, type, size) == [name |-> name, type |-> type, size |-> size]

pdf2MiB  == File("report.pdf", <<"application", "pdf">>, 2 * 1024 * 1024)
png10MiB == File("cat.png", <<"image", "png">>, MAX_FILE_SIZE)
pngOver  == File("big.png", <<"image", "png">>, MAX_FILE_SIZE + 1)
pdf11MiB == File("big.pdf", <<"application", "pdf">>, 11 * 1024 * 1024)
gifFile  == File("anim.gif", <<"image", "gif">>, 1024)

Form(files, title, description, tags) ==
    [files |-> files, title |-> title, description |-> description,
     tags |-> tags]

ValidForms ==
    { Form(<<pdf2MiB>>, sReport, <<>>, sWorkUrgent),
      Form(<<png10MiB>>, sCat, sPic, sWorkCat) }

InvalidForms ==
    { Form(<<>>, sCat, sPic, <<>>),
      Form(<<pdf2MiB>>, sBlank, sPic, <<>>),
      Form(<<gifFile>>, sCat, <<>>, <<>>),
      Form(<<pngOver>>, sCat, <<>>, <<>>),
      Form(<<pdf11MiB>>, sReport, <<>>, sWorkUrgent) }

Forms == ValidForms \cup InvalidForms

\* instants (ticks) at which an upload can read the clock, on two UTC days
Instants == {1, 2}

TimezoneOffsets == {0, 1}

\* the data-id texts a list button can carry
IdTexts == {IdText(i) : i \in 1..MaxId}

(***************************************************************************)
(* handleUpload, up to the store operation.                                *)
(***************************************************************************)
\* a plausible slip: the size test uses >=
ExceedsLimitInclusive(size) == size >= MAX_FILE_SIZE

\* file.size > MAX_FILE_SIZE
ExceedsLimit(size) == size > MAX_FILE_SIZE

\* the toast of the first failing check, "ok" when all pass
Validation(form) ==
    IF Len(form.files) = 0 THEN "Please select a file"
    ELSE IF Trim(form.title) = <<>> THEN "Please enter a title"
    ELSE IF form.files[1].type \notin DOMAIN ALLOWED_TYPES
         THEN "File type not allowed"
    ELSE IF ExceedsLimit(form.files[1].size)
         THEN "File size exceeds 10MB limit"
    ELSE "ok"

FileCategory(type) ==
    IF type[1] = "image" THEN "image"
    ELSE IF type[1] = "video" THEN "video"
    ELSE "document"

\* tagsInput.value.split(',').map(tag => tag.trim()).filter(tag => tag)
ProcessTags(value) ==
    IF value = <<>> THEN <<>>
    ELSE SelectSeq([i \in 1..Len(Split(value, Comma)) |->
                       Trim(Split(value, Comma)[i])],
                   LAMBDA tag : tag # <<>>)

\* FileReader.readAsDataURL: "data:<type>;base64,<content of the file>"
ReadFileAsDataURL(file) == [mime |-> file.type, base64 |-> file.name]

\* the entry object handleUpload builds (without id)
BuildEntry(form, now) ==
    [title       |-> Trim(form.title),
     description |-> Trim(form.description),
     tags        |-> ProcessTags(form.tags),
     fileName    |-> form.files[1].name,
     fileType    |-> ALLOWED_TYPES[form.files[1].type],
     type        |-> FileCategory(form.files[1].type),
     fileData    |-> ReadFileAsDataURL(form.files[1]),
     date        |-> ToISOString(now)]

(***************************************************************************)
(* Store operations on the two media.                                      *)
(***************************************************************************)
\* a plausible slip: the new entry is never pushed
LocalAddUnsaved(entries, entry) == entries

\* a plausible slip: the list written back holds the new entry alone
LocalAddAlone(entries, entry) ==
    <<WithId(entry, NextLocalId(entries))>>

\* addEntryToLocalStorage: the list that is written back
LocalAdd(entries, entry) ==
    Append(entries, WithId(entry, NextLocalId(entries)))

\* a plausible slip: the stored record is merged with, not replaced by, the
\* supplied one (the old date is kept)
LocalUpdateMerge(entries, entry) ==
    LET index == FindIndex(entries, entry.id)
    IN  IF index = 0 THEN entries
        ELSE [entries EXCEPT ![index] =
                [entry EXCEPT !.date = entries[index].date]]

\* updateEntryInLocalStorage: the list after entries[index] = entry, the
\* list as read when findIndex gives -1 (and nothing is written back)
LocalUpdate(entries, entry) ==
    LET index == FindIndex(entries, entry.id)
    IN  IF index = 0 THEN entries ELSE [entries EXCEPT ![index] = entry]

\* a plausible slip: the text of the id is compared with the numeric ids,
\* and no record is filtered out
LocalRemoveUnparsed(entries, id) == entries

\* removeEntryFromLocalStorage: entries.filter(e => e.id !== parseInt(id))
LocalRemove(entries, id) ==
    SelectSeq(entries, LAMBDA e : e.id # ParseInt(id))

\* the record kept of the last handler that ran: its store operation, the
\* medium it went to, its arguments (id, entry, form) and result (ret),
\* whether it ran in edit mode, and whether its id was in the store before
Last(op, backend, id, entry, ret, form, editing, present) ==
    [op |-> op, backend |-> backend, id |-> id, entry |-> entry, ret |-> ret,
     form |-> form, editing |-> editing, present |-> present]

(***************************************************************************)
(* The views a handler refreshes after a store operation, computed from    *)
(* the entries getAllEntries returns once the operation is done.           *)
(***************************************************************************)
RefreshFrom(allEntries) ==
    LET entries == allEntries
    IN  /\ entriesList' =
              LoadEntries(entries, searchInput, typeFilter, tagFilter)
        /\ tagOptions' = LoadTags(entries)
        /\ tagFilter' = RestoredTag(entries, tagFilter)
        /\ calendar' = RenderCalendar(entries, currentDate, timezoneOffset)

Refresh == RefreshFrom(GetAllEntries')

(***************************************************************************)
(* Initial state: the constructor has run up to its call of initDB, on a   *)
(* device whose two media are empty.                                       *)
(***************************************************************************)
Init ==
    /\ pc = "initDB"
    /\ db = "null"
    /\ useLocalStorage = FALSE
    /\ currentEntryId = Null
    /\ currentDate = 0
    /\ objectStore = {}
    /\ keyGenerator = 1
    /\ localStorageItem = NoItem
    /\ searchInput = <<>>
    /\ typeFilter = "all"
    /\ tagFilter = All
    /\ tagOptions = <<>>
    /\ entriesList = <<>>
    /\ calendar = <<>>
    /\ toast = ""
    /\ timezoneOffset \in TimezoneOffsets
    /\ last = Last("none", "none", NaN, Undefined, NaN, Undefined, FALSE, FALSE)
    /\ context = [c \in Contexts |-> Idle]

\* a plausible slip: the catch block does not set the flag
FlagAfterOpenNeverSet(opened) == FALSE

\* this.useLocalStorage after idb.openDB resolved (opened) or threw
FlagAfterOpen(opened) == ~opened

\* initDB, then the constructor's continuation: initUI, loadEntries, loadTags
InitDB(opened) ==
    /\ pc = "initDB"
    /\ pc' = "ready"
    /\ db' = IF opened THEN "open" ELSE "null"
    /\ useLocalStorage' = FlagAfterOpen(opened)
    /\ toast' = IF opened THEN "" ELSE "Failed to initialize database"
    /\ UNCHANGED <<currentEntryId, currentDate, objectStore, keyGenerator,
                   localStorageItem, searchInput, typeFilter, timezoneOffset, context>>
    /\ Refresh
    /\ last' = Last("init", "none", NaN, Undefined, NaN, Undefined, FALSE,
                    FALSE)

(***************************************************************************)
(* handleUpload: click on #uploadBtn with `form` in the upload form.       *)
(* toast is the message the last handler showed, "" when it showed none.   *)
(***************************************************************************)
\* the checks and the built entry of each form, computed once
ValidationOf == [form \in Forms |-> Validation(form)]

EntryOf ==
    [form \in ValidForms, now \in Instants |-> BuildEntry(form, now)]

\* a validation check failed: a toast, and the handler returns
RejectUpload(form) ==
    /\ toast' = ValidationOf[form]
    /\ last' = Last("rejected", "none", NaN, Undefined, NaN, form,
                    Truthy(currentEntryId), FALSE)
    /\ UNCHANGED <<pc, db, useLocalStorage, currentEntryId, currentDate,
                   objectStore, keyGenerator, localStorageItem, searchInput,
                   typeFilter, tagFilter, tagOptions, entriesList, calendar,
                   timezoneOffset, context>>

\* readFileAsDataURL rejected: the catch block shows a toast
FailUpload(form) ==
    /\ toast' = "Failed to process file"
    /\ last' = Last("readError", "none", NaN, Undefined, NaN, form,
                    Truthy(currentEntryId), FALSE)
    /\ UNCHANGED <<pc, db, useLocalStorage, currentEntryId, currentDate,
                   objectStore, keyGenerator, localStorageItem, searchInput,
                   typeFilter, tagFilter, tagOptions, entriesList, calendar,
                   timezoneOffset, context>>

\* updateEntry(entry) with entry.id = parseInt(this.currentEntryId)
UpdateEntry(form, updated) ==
    LET entry == updated
    IN  /\ IF Dispatch(useLocalStorage) = "localStorage"
           THEN LET entries == GetEntriesFromLocalStorage
                IN  /\ localStorageItem' =
                          IF FindIndex(entries, entry.id) = 0
                          THEN localStorageItem
                          ELSE SetItem(LocalUpdate(entries, entry))
                    /\ UNCHANGED <<objectStore, keyGenerator>>
           ELSE /\ objectStore' = DbPut(objectStore, entry)
                /\ keyGenerator' = IF entry.id >= keyGenerator
                                   THEN entry.id + 1 ELSE keyGenerator
                /\ UNCHANGED localStorageItem
        /\ toast' = "Entry updated successfully"
        /\ last' = Last("update", Dispatch(useLocalStorage), entry.id, entry,
                        NaN, form, TRUE, entry.id \in IdsOf(GetAllEntries))

\* addEntry(entry); the model stops inserting at id MaxId
AddEntry(form, entry) ==
    /\ IF Dispatch(useLocalStorage) = "localStorage"
       THEN LET entries == GetEntriesFromLocalStorage
            IN  /\ NextLocalId(entries) <= MaxId
                /\ localStorageItem' = SetItem(LocalAdd(entries, entry))
                /\ UNCHANGED <<objectStore, keyGenerator>>
                /\ last' = Last("insert", "localStorage",
                                NextLocalId(entries), entry,
                                NextLocalId(entries), form, FALSE, FALSE)
       ELSE /\ keyGenerator <= MaxId
            /\ objectStore' = DbAdd(objectStore, keyGenerator, entry)
            /\ keyGenerator' = keyGenerator + 1
            /\ UNCHANGED localStorageItem
            /\ last' = Last("insert", "indexedDB", keyGenerator, entry,
                            keyGenerator, form, FALSE, FALSE)
    /\ toast' = "File uploaded successfully"

\* the file is read (readOk) and the clock is read at instant now
SaveUpload(form) ==
    \E readOk \in BOOLEAN :
        IF ~readOk THEN FailUpload(form)
        ELSE \E now \in Instants :
                /\ IF Truthy(currentEntryId)
                   THEN UpdateEntry(form, WithId(EntryOf[form, now],
                                                 ParseInt(currentEntryId)))
                   ELSE AddEntry(form, EntryOf[form, now])
                \* resetForm, then loadEntries, loadTags, renderCalendar
                /\ currentEntryId' = Null
                /\ UNCHANGED <<pc, db, useLocalStorage, currentDate,
                               searchInput, typeFilter, timezoneOffset, context>>
                /\ Refresh

HandleUpload(form) ==
    /\ pc = "ready"
    /\ IF ValidationOf[form] # "ok" THEN RejectUpload(form)
       ELSE SaveUpload(form)

(***************************************************************************)
(* deleteEntry: click on the delete button carrying data-id `id`, the      *)
(* confirm dialog accepted.  The button can be stale (a second click while *)
(* the first delete is in flight, a list rendered before another delete).  *)
(* A dismissed dialog returns before anything is read or written.          *)
(***************************************************************************)
DeleteEntry(id) ==
    /\ pc = "ready"
    /\ IF Dispatch(useLocalStorage) = "localStorage"
       THEN /\ localStorageItem' =
                  SetItem(LocalRemove(GetEntriesFromLocalStorage, id))
            /\ UNCHANGED objectStore
       ELSE /\ objectStore' = DbDelete(objectStore, ParseInt(id))
            /\ UNCHANGED localStorageItem
    /\ toast' = "Entry deleted successfully"
    /\ last' = Last("delete", Dispatch(useLocalStorage), ParseInt(id),
                    Undefined, NaN, Undefined, FALSE,
                    ParseInt(id) \in IdsOf(GetAllEntries))
    /\ UNCHANGED <<pc, db, useLocalStorage, currentEntryId, currentDate,
                   keyGenerator, searchInput, typeFilter, timezoneOffset, context>>
    /\ Refresh

(***************************************************************************)
(* editEntry and previewEntry: click on the edit / preview button carrying *)
(* data-id `id`.                                                           *)
(***************************************************************************)
EditEntry(id) ==
    LET entry == GetEntryById(id)
    IN  /\ pc = "ready"
        /\ currentEntryId' = IF entry = Undefined THEN currentEntryId ELSE id
        /\ toast' = IF entry = Undefined THEN "Entry not found" ELSE ""
        /\ last' = Last("edit", Dispatch(useLocalStorage), ParseInt(id),
                        entry, NaN, Undefined, FALSE, entry # Undefined)
        /\ UNCHANGED <<pc, db, useLocalStorage, currentDate, objectStore,
                       keyGenerator, localStorageItem, searchInput,
                       typeFilter, tagFilter, tagOptions, entriesList,
                       calendar, timezoneOffset, context>>

PreviewEntry(id) ==
    LET entry == GetEntryById(id)
    IN  /\ pc = "ready"
        /\ toast' = IF entry = Undefined THEN "Entry not found" ELSE ""
        /\ last' = Last("preview", Dispatch(useLocalStorage), ParseInt(id),
                        entry, NaN, Undefined, FALSE, entry # Undefined)
        /\ UNCHANGED <<pc, db, useLocalStorage, currentEntryId, currentDate,
                       objectStore, keyGenerator, localStorageItem,
                       searchInput, typeFilter, tagFilter, tagOptions,
                       entriesList, calendar, timezoneOffset, context>>

Next ==
    \/ \E opened \in BOOLEAN : InitDB(opened)
    \/ \E form \in Forms : HandleUpload(form)
    \/ \E id \in IdTexts : DeleteEntry(id)
    \/ \E id \in IdTexts : EditEntry(id)
    \/ \E id \in IdTexts : PreviewEntry(id)

Spec == Init /\ [][Next]_vars

(***************************************************************************)
(* The filter controls.  Their handlers only call loadEntries, so they are *)
(* checked in a specification of their own, SpecQuery, which starts from a *)
(* loaded page over each record list of up to MaxLen entries that uploads  *)
(* can have produced.                                                      *)
(***************************************************************************)
\* "Trip report"
sTrip == <<84, 114, 105, 112, 32, 114, 101, 112, 111, 114, 116>>
\* "cat video"
sCatVideo == <<99, 97, 116, 32, 118, 105, 100, 101, 111>>

mp4File == File("trip.mp4", <<"video", "mp4">>, 5 * 1024 * 1024)

QueryForms == ValidForms \cup {Form(<<mp4File>>, sTrip, sCatVideo, <<>>)}

QueryEntries == {BuildEntry(form, now) : form \in QueryForms, now \in Instants}

\* the lists getAllEntries can return: ids ascending from 1
QueryLists ==
    {[i \in 1..Len(f) |-> WithId(f[i], i)] :
        f \in UNION {[1..n -> QueryEntries] : n \in 0..MaxLen}}

\* "rEp", "PIC", "cat"
SearchTerms == {<<>>, <<114, 69, 112>>, <<80, 73, 67>>, <<99, 97, 116>>}

TypeOptions == {"all", "image", "video", "document"}

InitQuery ==
    /\ pc = "ready"
    /\ currentEntryId = Null
    /\ currentDate = 0
    /\ searchInput = <<>>
    /\ typeFilter = "all"
    /\ tagFilter = All
    /\ toast = ""
    /\ timezoneOffset \in TimezoneOffsets
    /\ last = Last("init", "none", NaN, Undefined, NaN, Undefined, FALSE, FALSE)
    /\ context = [c \in Contexts |-> Idle]
    /\ \E entries \in QueryLists, opened \in BOOLEAN :
          /\ db = IF opened THEN "open" ELSE "null"
          /\ useLocalStorage = FlagAfterOpen(opened)
          /\ objectStore = IF opened
                           THEN {entries[i] : i \in 1..Len(entries)} ELSE {}
          /\ keyGenerator = IF opened THEN Len(entries) + 1 ELSE 1
          /\ localStorageItem = IF opened \/ Len(entries) = 0 THEN NoItem
                                ELSE SetItem(entries)
          /\ entriesList = LoadEntries(entries, <<>>, "all", All)
          /\ tagOptions = LoadTags(entries)
          /\ calendar = RenderCalendar(entries, 0, timezoneOffset)

\* loadEntries with the controls holding search, type and tag
ShowEntries(search, type, tag) ==
    /\ pc = "ready"
    /\ searchInput' = search
    /\ typeFilter' = type
    /\ tagFilter' = tag
    /\ entriesList' = LoadEntries(GetAllEntries, search, type, tag)
    /\ toast' = ""
    /\ last' = Last("list", Dispatch(useLocalStorage), NaN, Undefined, NaN,
                    Undefined, FALSE, FALSE)
    /\ UNCHANGED <<pc, db, useLocalStorage, currentEntryId, currentDate,
                   objectStore, keyGenerator, localStorageItem, tagOptions,
                   calendar, timezoneOffset, context>>

\* 'input' on #searchInput
InputSearch(term) == ShowEntries(term, typeFilter, tagFilter)

\* 'change' on #typeFilter
ChangeType(type) == ShowEntries(searchInput, type, tagFilter)

\* 'change' on #tagFilter: one of its options is selected
ChangeTag(tag) ==
    /\ tag = All \/ \E i \in 1..Len(tagOptions) : tagOptions[i] = tag
    /\ ShowEntries(searchInput, typeFilter, tag)

\* click on #clearFilters
ClearFilters == ShowEntries(<<>>, "all", All)

NextQuery ==
    \/ \E term \in SearchTerms : InputSearch(term)
    \/ \E type \in TypeOptions : ChangeType(type)
    \/ \E tag \in {All} \cup {tagOptions[i] : i \in 1..Len(tagOptions)} :
          ChangeTag(tag)
    \/ ClearFilters

SpecQuery == InitQuery /\ [][NextQuery]_vars

(***************************************************************************)
(* Process lifetimes.  A reload of the page ends the lifetime of the       *)
(* DocumentManager and constructs a new one on DOMContentLoaded: its       *)
(* fields and the document are as the constructor and the markup make      *)
(* them (useLocalStorage is not a field yet, which reads as false), while  *)
(* the two media of the device keep what they hold.                        *)
(***************************************************************************)
Restart ==
    /\ pc' = "initDB"
    /\ db' = "null"
    /\ useLocalStorage' = FALSE
    /\ currentEntryId' = Null
    /\ currentDate' = 0
    /\ searchInput' = <<>>
    /\ typeFilter' = "all"
    /\ tagFilter' = All
    /\ tagOptions' = <<>>
    /\ entriesList' = <<>>
    /\ calendar' = <<>>
    /\ toast' = ""
    /\ last' = Last("restart", "none", NaN, Undefined, NaN, Undefined, FALSE,
                    FALSE)
    /\ UNCHANGED <<objectStore, keyGenerator, localStorageItem,
                   timezoneOffset, context>>

\* the records the two media of the device hold together
StoredOnDevice == Cardinality(objectStore) + Len(GetEntriesFromLocalStorage)

\* handleUpload of a valid form; the model stops inserting when the two
\* media hold MaxId records together
UploadOnDevice(form) ==
    /\ Truthy(currentEntryId) \/ StoredOnDevice < MaxId
    /\ HandleUpload(form)

\* a device whose clock is on UTC
InitLifetimes == Init /\ timezoneOffset = 0

\* the handlers that write or read single records, over the valid forms
NextLifetimes ==
    \/ \E opened \in BOOLEAN : InitDB(opened)
    \/ \E form \in ValidForms : UploadOnDevice(form)
    \/ \E id \in IdTexts : DeleteEntry(id)
    \/ \E id \in IdTexts : EditEntry(id)
    \/ Restart

SpecLifetimes == InitLifetimes /\ [][NextLifetimes]_vars

(***************************************************************************)
(* The upload modal.  editEntry shows #uploadModal; the user can dismiss   *)
(* it (close button, Escape, backdrop) instead of saving.  initUI          *)
(* registers no listener for that, so no code of DocumentManager runs and  *)
(* its fields keep their values; `last` records that the edit was          *)
(* abandoned.                                                              *)
(***************************************************************************)
DismissModal ==
    /\ pc = "ready"
    /\ last.op = "edit"
    /\ last.present
    /\ toast' = ""
    /\ last' = Last("dismiss", "none", last.id, Undefined, NaN, Undefined,
                    FALSE, FALSE)
    /\ UNCHANGED <<pc, db, useLocalStorage, currentEntryId, currentDate,
                   objectStore, keyGenerator, localStorageItem, searchInput,
                   typeFilter, tagFilter, tagOptions, entriesList, calendar,
                   timezoneOffset, context>>

NextSession ==
    \/ Next
    \/ DismissModal

SpecSession == Init /\ [][NextSession]_vars

(***************************************************************************)
(* Two execution contexts on the fallback medium.  Both pages fell back    *)
(* (initDB failed in each) and neither has an edit open.  A context runs   *)
(* handleUpload of a new upload in two steps, because another context can  *)
(* run between them: up to the read of the item in addEntryToLocalStorage  *)
(* (line 422), and from there to the end of handleUpload.  Within one      *)
(* context the two steps are not separated by any other handler: the await *)
(* of line 422 resumes in a microtask.  The document of the peer is its    *)
(* own and is not part of the state; no handler listens for the storage    *)
(* event, so a write of one context changes nothing in the other but the   *)
(* shared item.                                                            *)
(***************************************************************************)
InitContexts ==
    /\ pc = "ready"
    /\ db = "null"
    /\ useLocalStorage = FlagAfterOpen(FALSE)
    /\ currentEntryId = Null
    /\ currentDate = 0
    /\ objectStore = {}
    /\ keyGenerator = 1
    /\ localStorageItem = NoItem
    /\ searchInput = <<>>
    /\ typeFilter = "all"
    /\ tagFilter = All
    /\ tagOptions = <<>>
    /\ entriesList = <<>>
    /\ timezoneOffset = 0
    /\ calendar = RenderCalendar(<<>>, 0, 0)
    /\ toast = "Failed to initialize database"
    /\ last = Last("init", "none", NaN, Undefined, NaN, Undefined, FALSE, FALSE)
    /\ context = [c \in Contexts |-> Idle]

\* handleUpload of context c, from the click to the getItem of line 422; the
\* model stops inserting at id MaxId
BeginAddEntry(c, form) ==
    /\ pc = "ready"
    /\ Dispatch(useLocalStorage) = "localStorage"
    /\ ~Truthy(currentEntryId)
    /\ ValidationOf[form] = "ok"
    /\ context[c].pc = "idle"
    /\ NextLocalId(GetEntriesFromLocalStorage) <= MaxId
    /\ \E now \in Instants :
          context' = [context EXCEPT ![c] =
                         [pc |-> "read", entries |-> GetEntriesFromLocalStorage,
                          entry |-> EntryOf[form, now], ret |-> @.ret]]
    /\ UNCHANGED <<pc, db, useLocalStorage, currentEntryId, currentDate,
                   objectStore, keyGenerator, localStorageItem, searchInput,
                   typeFilter, tagFilter, tagOptions, entriesList, calendar,
                   toast, timezoneOffset, last>>

\* the rest of addEntryToLocalStorage (lines 423-426) on the list read, then
\* the rest of handleUpload: toast, resetForm and the refresh of the views
EndAddEntry(c) ==
    LET entries == context[c].entries
        entry == context[c].entry
        id == NextLocalId(entries)
    IN  /\ context[c].pc = "read"
        /\ localStorageItem' = SetItem(LocalAdd(entries, entry))
        /\ context' = [context EXCEPT ![c] = [@ EXCEPT !.pc = "idle",
                                                        !.ret = id]]
        /\ UNCHANGED <<pc, db, useLocalStorage, currentDate, objectStore,
                       keyGenerator, searchInput, typeFilter, timezoneOffset>>
        /\ IF c = "self"
           THEN /\ toast' = "File uploaded successfully"
                /\ last' = Last("insert", "localStorage", id, entry, id,
                                Undefined, FALSE, FALSE)
                /\ currentEntryId' = Null
                /\ Refresh
           ELSE UNCHANGED <<toast, last, currentEntryId, tagFilter,
                            tagOptions, entriesList, calendar>>

NextContexts ==
    \/ \E c \in Contexts, form \in ValidForms : BeginAddEntry(c, form)
    \/ \E c \in Contexts : EndAddEntry(c)

SpecContexts == InitContexts /\ [][NextContexts]_vars

(***************************************************************************)
(* Properties.  Every handler writes `last`, so a step with                *)
(* last'.op = "insert" is a step of an insert, and in an action formula    *)
(* the unprimed store is the store before the operation and the primed     *)
(* store the store after it.                                               *)
(***************************************************************************)
NoDuplicateIds(entries) ==
    \A i, j \in 1..Len(entries) : i # j => entries[i].id # entries[j].id

\* the records of a list, as a set
RecordsOf(entries) == {entries[i] : i \in 1..Len(entries)}

\* C1: after any sequence of inserts, updates and deletes on either backend
\* no two records of the store have the same id, and an insert on the
\* fallback backend assigns 1 to an empty store and otherwise one more than
\* the largest id in it.
C1_UniqueIds ==
    /\ [](NoDuplicateIds(GetAllEntries))
    /\ [][(last'.op = "insert" /\ last'.backend = "localStorage") =>
            /\ last'.ret =
                  IF GetEntriesFromLocalStorage = <<>> THEN 1
                  ELSE 1 + CHOOSE m \in IdsOf(GetEntriesFromLocalStorage) :
                              \A n \in IdsOf(GetEntriesFromLocalStorage) : n <= m
            /\ IdsOf(GetEntriesFromLocalStorage') =
                  IdsOf(GetEntriesFromLocalStorage) \cup {last'.ret}]_vars

\* a fallback insert into a store that held one record, which got id 2
C1_Witness ==
    /\ last.op = "insert"
    /\ last.backend = "localStorage"
    /\ last.ret = 2
    /\ Len(GetAllEntries) = 2
    /\ keyGenerator = 1

\* C2: insert(record) returns an id under which getById finds, right after,
\* a record equal to the inserted one in every field but the assigned id.
C2_InsertThenGet ==
    last.op = "insert" =>
        LET got == GetEntryById(IdText(last.ret))
        IN  /\ got # Undefined
            /\ got.id = last.ret
            /\ DOMAIN got = DOMAIN last.entry \cup {"id"}
            /\ \A k \in DOMAIN last.entry : got[k] = last.entry[k]

\* an insert into a store that already holds a record
C2_Witness ==
    /\ last.op = "insert"
    /\ last.ret = 2
    /\ Len(GetAllEntries) = 2
    /\ last.entry.tags # <<>>

\* C3: update(record) with an id that is in the store: getById then returns
\* exactly the supplied record, under the same id, and the set of ids in the
\* store is what it was.
C3_UpdateReplaces ==
    [][\A id \in IdsOf(GetAllEntries) :
          (last'.op = "update" /\ last'.id = id) =>
            /\ GetEntryById(IdText(id))' = last'.entry
            /\ last'.entry.id = id
            /\ IdsOf(GetAllEntries') = IdsOf(GetAllEntries)
            /\ Len(GetAllEntries') = Len(GetAllEntries)]_vars

\* an update that changed title and date of one of two stored records
C3_Witness ==
    /\ last.op = "update"
    /\ last.present
    /\ Len(GetAllEntries) = 2
    /\ GetEntryById(IdText(last.id)) = last.entry

\* C4: update(record) with an id that is not in the store never adds or
\* changes a record: the primary backend fails (NotFound), the fallback
\* returns silently, and getAllEntries returns the same records before and
\* after the call.
C4_UpdateAbsentIsNoOp ==
    [][(last'.op = "update" /\ last'.id \notin IdsOf(GetAllEntries)) =>
        /\ GetAllEntries' = GetAllEntries
        /\ last'.backend = "indexedDB" => toast' # "Entry updated successfully"
      ]_vars

\* C5: delete(id) followed by getById(id) yields not-found, every record with
\* another id is left as it was, and a delete of an id that is not in the
\* store completes without failing and leaves the store as it was.
C5_DeleteRemoves ==
    [][\A id \in 1..MaxId :
          (last'.op = "delete" /\ last'.id = id) =>
            /\ GetEntryById(IdText(id))' = Undefined
            /\ GetAllEntries' = SelectSeq(GetAllEntries, LAMBDA e : e.id # id)
            /\ toast' = "Entry deleted successfully"
            /\ id \notin IdsOf(GetAllEntries) => GetAllEntries' = GetAllEntries
      ]_vars

\* a delete of an id that was not in the store, which holds another record
C5_Witness ==
    /\ last.op = "delete"
    /\ ~last.present
    /\ Len(GetAllEntries) = 1
    /\ toast = "Entry deleted successfully"

\* C6: when opening the primary backend failed, the fallback flag is set and
\* stays set, the primary is never opened afterwards and every operation goes
\* to the fallback medium (the database is neither read nor written); when
\* it succeeded the flag is never set and every operation goes to the
\* database.
C6_BackendFixed ==
    /\ [](pc = "ready" =>
            /\ useLocalStorage <=> db = "null"
            /\ last.backend \in
                 {"none", IF db = "null" THEN "localStorage" ELSE "indexedDB"}
            /\ GetAllEntries = IF db = "null" THEN GetEntriesFromLocalStorage
                               ELSE InKeyOrder(objectStore))
    /\ [][pc = "ready" =>
            /\ db' = db
            /\ useLocalStorage' = useLocalStorage
            /\ db = "null" => UNCHANGED <<objectStore, keyGenerator>>
            /\ db = "open" => UNCHANGED localStorageItem]_vars

\* after a failed open, an update served by the fallback medium
C6_Witness ==
    /\ db = "null"
    /\ useLocalStorage
    /\ last.op = "update"
    /\ last.backend = "localStorage"
    /\ last.present
    /\ objectStore = {}

\* the allowed content types, as the upload contract lists them
AllowedContentTypes ==
    {<<"application", "pdf">>, DOCX_MIME, <<"text", "plain">>,
     <<"image", "jpeg">>, <<"image", "png">>, <<"video", "mp4">>}

\* the submission must be rejected: no file, a title of white space only, a
\* content type outside the allowed set, or a size above 10 MiB
MustBeRejected(form) ==
    \/ form.files = <<>>
    \/ \A i \in 1..Len(form.title) : form.title[i] = 32
    \/ form.files[1].type \notin AllowedContentTypes
    \/ form.files[1].size > 10485760

\* C7: a submission with no file, a blank title, a content type outside the
\* allowed set or a file above 10 MiB is rejected with a message and without
\* any storage operation, in new-upload and in edit mode; any other
\* submission, one of exactly 10 MiB included, is not rejected.
C7_ValidationFirst ==
    [][last'.op \in {"rejected", "readError", "insert", "update"} =>
        /\ last'.op = "rejected" <=> MustBeRejected(last'.form)
        /\ last'.op = "rejected" =>
              /\ toast' \in {"Please select a file", "Please enter a title",
                             "File type not allowed",
                             "File size exceeds 10MB limit"}
              /\ UNCHANGED <<objectStore, keyGenerator, localStorageItem,
                             currentEntryId>>
              /\ GetAllEntries' = GetAllEntries]_vars

\* an oversized file rejected in edit mode, the store holding a record
C7_Witness ==
    /\ last.op = "rejected"
    /\ last.editing
    /\ toast = "File size exceeds 10MB limit"
    /\ last.form.files[1].size = MAX_FILE_SIZE + 1
    /\ Len(GetAllEntries) > 0

\* the three display predicates, as the query layer states them
SearchHolds(e, term) ==
    \/ term = <<>>
    \/ Includes(ToLowerCase(e.title), ToLowerCase(term))
    \/ Includes(ToLowerCase(e.description), ToLowerCase(term))

TypeHolds(e, type) == type = "all" \/ e.type = type

TagHolds(e, tag) ==
    \/ tag = All
    \/ \E i \in 1..Len(e.tags) : ToLowerCase(e.tags[i]) = ToLowerCase(tag)

\* C8: the displayed list holds exactly the records that satisfy the search,
\* type and tag predicates together, each once, ordered by createdAt
\* descending: no record comes before one with a later createdAt.
C8_FilterAndSort ==
    /\ \A e \in RecordsOf(GetAllEntries) :
          e \in RecordsOf(entriesList) <=>
             /\ SearchHolds(e, searchInput)
             /\ TypeHolds(e, typeFilter)
             /\ TagHolds(e, tagFilter)
    /\ RecordsOf(entriesList) \subseteq RecordsOf(GetAllEntries)
    /\ NoDuplicateIds(entriesList)
    /\ \A i, j \in 1..Len(entriesList) :
          i < j => DateParse(entriesList[i].date) >= DateParse(entriesList[j].date)

\* all three filters set: one of two stored records is shown, the other is
\* filtered out
C8_Witness ==
    /\ searchInput # <<>>
    /\ typeFilter # "all"
    /\ tagFilter # All
    /\ Len(entriesList) = 1
    /\ Len(GetAllEntries) = 2

\* the tags of all records of a list, lowercased
LowercasedTags(entries) ==
    UNION {{ToLowerCase(entries[i].tags[j]) : j \in 1..Len(entries[i].tags)} :
              i \in 1..Len(entries)}

\* "urgent", "work"
sUrgentLower == <<117, 114, 103, 101, 110, 116>>
sWorkLower   == <<119, 111, 114, 107>>

\* C9: after any sequence of inserts, updates and deletes the tag index is
\* exactly the set of lowercased tags of the records now in the store: every
\* such tag once, no other entry (none left over from a deleted record), in
\* ascending lexicographic order.
C9_TagIndex ==
    pc = "ready" =>
        /\ {tagOptions[i] : i \in 1..Len(tagOptions)} =
              LowercasedTags(GetAllEntries)
        /\ \A i, j \in 1..Len(tagOptions) :
              i < j => /\ tagOptions[i] # tagOptions[j]
                       /\ StrLess(tagOptions[i], tagOptions[j])

\* the tags "Work", "URGENT" of the one record left after a delete give the
\* index "urgent", "work"
C9_Witness ==
    /\ last.op = "delete"
    /\ last.present
    /\ Len(GetAllEntries) = 1
    /\ GetAllEntries[1].tags = <<<<87, 111, 114, 107>>,
                                 <<85, 82, 71, 69, 78, 84>>>>
    /\ tagOptions = <<sUrgentLower, sWorkLower>>

\* the local calendar day an ISO timestamp falls on
LocalDay(iso) == (DateParse(iso) + timezoneOffset) \div TicksPerDay

\* C10: in the rendered calendar grid a day of the month is marked as having
\* entries if and only if some record in the store has its createdAt on that
\* calendar day.
C10_CalendarMarks ==
    pc = "ready" =>
        \A d \in DOMAIN calendar :
            calendar[d] <=>
                \E e \in RecordsOf(GetAllEntries) : LocalDay(e.date) = d

(***************************************************************************)
(* Properties of process lifetimes, checked under SpecLifetimes.           *)
(***************************************************************************)
\* the records the fallback medium holds
FallbackRecords == RecordsOf(GetEntriesFromLocalStorage)

\* C11: if the primary backend failed to initialize, an insert writes the
\* record, with the id it returns and the fields it was given, to the
\* fallback medium; the fallback medium is changed by nothing but an insert,
\* update or delete of a lifetime that fell back (not by a restart, an
\* initialization or a lifetime on the primary); and after a restart whose
\* initialization fails again, the list shown from listAll is made of
\* exactly the records the fallback medium held, ids and fields included.
C11_FallbackSurvivesRestart ==
    /\ [][(last'.op = "insert" /\ useLocalStorage)
            => /\ last'.backend = "localStorage"
               /\ WithId(last'.entry, last'.ret) \in FallbackRecords'
               /\ FallbackRecords \subseteq FallbackRecords'
               /\ objectStore' = objectStore]_vars
    /\ [][localStorageItem' # localStorageItem
            => /\ useLocalStorage
               /\ last'.op \in {"insert", "update", "delete"}]_vars
    /\ [][(last'.op = "init" /\ useLocalStorage')
            => /\ GetAllEntries' = GetEntriesFromLocalStorage
               /\ RecordsOf(entriesList') = FallbackRecords
               /\ Len(entriesList') = Len(GetEntriesFromLocalStorage)]_vars

\* a lifetime that fell back lists, right after its initialization, a record
\* that an earlier lifetime inserted into the fallback medium
C11_Witness ==
    /\ last.op = "init"
    /\ useLocalStorage
    /\ \E i \in 1..Len(entriesList) :
          /\ entriesList[i].id = 1
          /\ entriesList[i] \in FallbackRecords

\* C14: a record inserted in one lifetime and never deleted is returned by
\* listAll in every later lifetime on the device, whichever backend that
\* lifetime selected: once initialization is done, every record that either
\* medium of the device holds (the records inserted and not deleted since)
\* is among the records getAllEntries returns.
C14_VisibleAcrossLifetimes ==
    pc = "ready" =>
        (FallbackRecords \cup objectStore) \subseteq RecordsOf(GetAllEntries)

(***************************************************************************)
(* Properties of the edit target, checked under SpecSession.               *)
(***************************************************************************)
\* C13: the edit target is non-null only during an edit, so it is null once
\* the edit form was opened for a record and abandoned; and the next valid
\* save after that, which the user submits as a new upload, inserts a new
\* record and leaves every record of the store as it was.
C13_NewUploadInserts ==
    /\ [](last.op = "dismiss" => currentEntryId = Null)
    /\ [][(last.op = "dismiss" /\ last'.op \in {"insert", "update"})
            => /\ last'.op = "insert"
               /\ RecordsOf(GetAllEntries) \subseteq RecordsOf(GetAllEntries')
               /\ Len(GetAllEntries') = Len(GetAllEntries) + 1]_vars

(***************************************************************************)
(* Properties of two execution contexts, checked under SpecContexts.       *)
(***************************************************************************)
\* context c completes its insert in this step
Writes(c) == context[c].pc = "read" /\ context'[c].pc = "idle"

\* C12: insert on the fallback is a read-modify-write of the whole sequence
\* that is not atomic between contexts.  A context's write stores the list
\* it read with its record appended, under an id one more than the largest
\* id of the list it read (1 when that list was empty), whatever the item
\* holds by then; so a record another context wrote since the read is
\* dropped and its id can be returned again.  When nothing was written
\* between a context's read and its write, as when one context issues one
\* operation at a time, the write keeps every stored record and returns an
\* id that no stored record has.
C12_ReadModifyWrite ==
    [][\A c \in Contexts :
          Writes(c) =>
            LET read == context[c].entries
                ret == context'[c].ret
            IN  /\ ret = IF read = <<>> THEN 1 ELSE MaxOf(IdsOf(read)) + 1
                /\ GetEntriesFromLocalStorage' =
                      Append(read, WithId(context[c].entry, ret))
                /\ read = GetEntriesFromLocalStorage
                      => /\ FallbackRecords \subseteq FallbackRecords'
                         /\ ret \notin IdsOf(GetEntriesFromLocalStorage)
                /\ (\/ ~(FallbackRecords \subseteq FallbackRecords')
                    \/ ret \in IdsOf(GetEntriesFromLocalStorage))
                      => read # GetEntriesFromLocalStorage]_vars

\* both contexts read the empty item before either wrote: both inserts
\* returned id 1, and the item holds the record of the later writer (the
\* peer) alone
C12_Witness ==
    /\ \A c \in Contexts :
          /\ context[c].pc = "idle"
          /\ context[c].entries = <<>>
          /\ context[c].ret = 1
    /\ context["self"].entry # context["peer"].entry
    /\ GetEntriesFromLocalStorage = <<WithId(context["peer"].entry, 1)>>

====
